---- MODULE Spec2Model ----
(***************************************************************************)
(* Model of dns_changer (src/src/main.rs): an interactive tool that finds  *)
(* the active NetworkManager connection, shows a five-item menu and shells *)
(* out to nmcli to change the connection's DNS settings.                   *)
(*                                                                         *)
(* Strings are TLA+ strings; Len, SubSeq and \o are used on them the way   *)
(* the Rust code uses len, slicing and format!.  The outcome of every      *)
(* external process and of every terminal prompt is an input, drawn from   *)
(* a small set at the step that consumes it.                               *)
(***************************************************************************)
EXTENDS Naturals, Sequences, FiniteSets, TLC

VARIABLES
    listing,             \* what `nmcli -t -f NAME,DEVICE connection show --active` produces
    pc,                  \* "start" | "menu" | "aborted" | "exited"
    current_connection,  \* DnsChanger.current_connection ("" before new())
    input,               \* the prompt answers and command outcomes the last show_menu call was given
    result,              \* Result of the last call made by main (new() or show_menu())
    issued,              \* external commands run by the last call, in order
    out,                 \* the text written to stdout by the last call and the loop body
    err,                 \* the text written to stderr by the last call and the loop body
    exit_code            \* <<status>> once the process has ended, <<>> while it runs

vars == <<listing, pc, current_connection, input, result, issued, out, err, exit_code>>

----------------------------------------------------------------------------
(* Bounds of the model. *)

\* Longest generated stdout text of the listing command, in characters.
MaxLen == 5

----------------------------------------------------------------------------
(* anyhow::Result<T> *)

Ok(v) == [ok |-> TRUE, val |-> v, msg |-> ""]
Err(m) == [ok |-> FALSE, val |-> "", msg |-> m]

(* std::process::Output as seen through io::Result: spawned = FALSE is the *)
(* Err of Command::output() (the program could not be started); utf8 says  *)
(* whether the captured stdout bytes are valid UTF-8.                      *)
Outcome(spawned, code, utf8, stdout, stderr, ioerr) ==
    [spawned |-> spawned, code |-> code, utf8 |-> utf8,
     stdout |-> stdout, stderr |-> stderr, ioerr |-> ioerr]

SpawnError == Outcome(FALSE, 0, TRUE, "", "", "No such file or directory (os error 2)")
Utf8Error == "invalid utf-8 sequence of 1 bytes from index 0"

\* One external command as it was run: program, arguments, and what came back.
Run(prog, argv, o) == [prog |-> prog, argv |-> argv, outcome |-> o]

----------------------------------------------------------------------------
(* Text helpers: str::lines and str::split(':') *)

\* Index of the first occurrence of the character c in s at or after i, 0 if none.
RECURSIVE Find(_, _, _)
Find(s, c, i) ==
    IF i > Len(s) THEN 0
    ELSE IF SubSeq(s, i, i) = c THEN i
    ELSE Find(s, c, i + 1)

\* str::split(sep): always at least one part; "a:" gives <<"a", "">>.
RECURSIVE Split(_, _)
Split(s, sep) ==
    LET k == Find(s, sep, 1)
    IN IF k = 0 THEN <<s>>
       ELSE <<SubSeq(s, 1, k - 1)>> \o Split(SubSeq(s, k + 1, Len(s)), sep)

\* A line without its "\n" loses one trailing "\r" as well.
StripCr(l) ==
    IF Len(l) > 0 /\ SubSeq(l, Len(l), Len(l)) = "\r"
    THEN SubSeq(l, 1, Len(l) - 1)
    ELSE l

\* str::lines(): lines end at "\n" or "\r\n"; the last line needs no ending,
\* "" has no lines, and a "\r" not followed by "\n" stays in its line.
RECURSIVE Lines(_)
Lines(s) ==
    IF s = "" THEN <<>>
    ELSE LET k == Find(s, "\n", 1)
         IN IF k = 0 THEN <<s>>
            ELSE <<StripCr(SubSeq(s, 1, k - 1))>> \o Lines(SubSeq(s, k + 1, Len(s)))

----------------------------------------------------------------------------
(* DnsChanger::get_active_connection *)

ListActive == <<"-t", "-f", "NAME,DEVICE", "connection", "show", "--active">>

\* Faulty variant of LineMatches: tests the NAME field instead of the DEVICE field.
LineMatchesName(parts) == Len(parts) >= 2 /\ parts[1] # ""

\* parts.len() >= 2 && !parts[1].is_empty()   (Rust indexes from 0)
LineMatches(parts) == Len(parts) >= 2 /\ parts[2] # ""

\* The for loop over output_str.lines(), from line i on.
RECURSIVE ScanLines(_, _)
ScanLines(ls, i) ==
    IF i > Len(ls) THEN Err("No active connection found")
    ELSE LET parts == Split(ls[i], ":")
         IN IF LineMatches(parts) THEN Ok(parts[1])
            ELSE ScanLines(ls, i + 1)

\* Faulty variant of get_active_connection: a non-zero exit status is not checked.
get_active_connection_unchecked(o) ==
    IF ~o.spawned THEN Err(o.ioerr)
    ELSE IF ~o.utf8 THEN Err(Utf8Error)
    ELSE ScanLines(Lines(o.stdout), 1)

get_active_connection(o) ==
    IF ~o.spawned THEN Err(o.ioerr)
    ELSE IF o.code # 0 THEN Err("Failed to get active connections")
    ELSE IF ~o.utf8 THEN Err(Utf8Error)
    ELSE ScanLines(Lines(o.stdout), 1)

----------------------------------------------------------------------------
(* DnsChanger::new: the provider catalog *)

Provider(name, primary, secondary, description) ==
    [name |-> name, primary_dns |-> primary, secondary_dns |-> secondary,
     description |-> description]

Providers ==
    << Provider("Cloudflare", "1.1.1.1", "1.0.0.1", "Fast and privacy-focused DNS"),
       Provider("Google", "8.8.8.8", "8.8.4.4", "Reliable Google DNS"),
       Provider("Quad9", "9.9.9.9", "149.112.112.112", "Security-focused DNS"),
       Provider("OpenDNS", "208.67.222.222", "208.67.220.220", "Family-safe DNS") >>

\* Ok(Self { providers, current_connection }) or the discovery error.
new(o) ==
    LET c == get_active_connection(o)
    IN IF c.ok
       THEN Ok([providers |-> Providers, current_connection |-> c.val])
       ELSE Err(c.msg)

----------------------------------------------------------------------------
(* What a method did: its Result, the commands it ran, the text that       *)
(* reached stdout and stderr while it ran, and whether it ended the        *)
(* process.  The methods themselves print to stdout only.                  *)

Did(res, cmds, printed) ==
    [res |-> res, cmds |-> cmds, out |-> printed, err |-> "", exits |-> FALSE]

\* println!("{}", line) and eprintln!("{}", line): the line and a newline.
Println(line) == line \o "\n"

\* The success lines start with U+2705 (WHITE HEAVY CHECK MARK) and a space.
\* String literals of the module are ASCII, so the one character U+2705 is
\* written as the text "[U+2705]"; nothing in the model looks inside it.
CheckMark == "[U+2705]"

\* A failed process start or a failed prompt: the `?` on an io::Result.
IoErr(o) == Err(o.ioerr)

----------------------------------------------------------------------------
(* DnsChanger::execute_command *)

execute_command(args, o) ==
    Did(IF ~o.spawned THEN IoErr(o)
        ELSE IF o.code # 0 THEN Err("Command failed: " \o o.stderr)
        ELSE Ok(""),
        <<Run("sudo", <<"nmcli">> \o args, o)>>, "")

----------------------------------------------------------------------------
(* DnsChanger::restart_connection *)

Down(conn, o) == Run("sudo", <<"nmcli", "connection", "down", conn>>, o)
Up(conn, o) == Run("sudo", <<"nmcli", "connection", "up", conn>>, o)

\* Faulty variant of restart_connection: a failed "down" ends the restart (as a `?`
\* on the down step would).
restart_connection_strict(self, in) ==
    IF ~in.down.spawned THEN Did(IoErr(in.down), <<Down(self.current_connection, in.down)>>, "")
    ELSE IF in.down.code # 0
    THEN Did(Err("Failed to restart connection: " \o in.down.stderr),
             <<Down(self.current_connection, in.down)>>, "")
    ELSE Did(IF ~in.up.spawned THEN IoErr(in.up)
             ELSE IF in.up.code # 0
             THEN Err("Failed to restart connection: " \o in.up.stderr)
             ELSE Ok(""),
             <<Down(self.current_connection, in.down), Up(self.current_connection, in.up)>>,
             "")

\* The result of "down" is dropped (let _ =); "up" decides the Result.
restart_connection(self, in) ==
    Did(IF ~in.up.spawned THEN IoErr(in.up)
        ELSE IF in.up.code # 0
        THEN Err("Failed to restart connection: " \o in.up.stderr)
        ELSE Ok(""),
        <<Down(self.current_connection, in.down), Up(self.current_connection, in.up)>>,
        "")

----------------------------------------------------------------------------
(* DnsChanger::set_dns and DnsChanger::set_automatic_dns *)

\* Faulty variant of Then: the second step runs whatever the first returned.
ThenAlways(a, b) ==
    [Did(b.res, a.cmds \o b.cmds, a.out \o b.out) EXCEPT !.err = a.err \o b.err]

\* `a?; b`: b runs only when a returned Ok; the commands and output add up.
Then(a, b) ==
    IF a.res.ok
    THEN [Did(b.res, a.cmds \o b.cmds, a.out \o b.out) EXCEPT !.err = a.err \o b.err]
    ELSE a

\* Faulty variant of DnsValue: a trailing separator after the secondary address.
DnsValueTrailing(primary, secondary) == primary \o " " \o secondary \o " "

\* format!("{} {}", primary, secondary)
DnsValue(primary, secondary) == primary \o " " \o secondary

SetDnsArgs(conn, dns) ==
    <<"connection", "mod", conn, "ipv4.dns", dns, "ipv4.ignore-auto-dns", "yes">>

\* execute_command(..)?; self.restart_connection()?; Ok(())
set_dns(self, primary, secondary, in) ==
    Then(execute_command(
             SetDnsArgs(self.current_connection, DnsValue(primary, secondary)), in.mod),
         restart_connection(self, in))

\* Faulty variant of AutomaticArgs: the IPv6 flag is left out.
AutomaticArgsNoV6(conn) ==
    <<"connection", "mod", conn, "ipv4.dns", "", "ipv4.ignore-auto-dns", "no">>

AutomaticArgs(conn) ==
    <<"connection", "mod", conn, "ipv4.dns", "",
      "ipv4.ignore-auto-dns", "no", "ipv6.ignore-auto-dns", "no">>

\* execute_command(..)?; self.restart_connection()?; println!(..); Ok(())
set_automatic_dns(self, in) ==
    Then(Then(execute_command(AutomaticArgs(self.current_connection), in.mod),
              restart_connection(self, in)),
         Did(Ok(""), <<>>, Println(CheckMark \o " Switched to automatic DNS (Router)")))

----------------------------------------------------------------------------
(* DnsChanger::select_provider and DnsChanger::set_custom_dns *)

\* A prompt's answer: Ok(value) or the prompt's I/O error.  Select answers a
\* 0-based index, Input a string.
Answer(v) == [ok |-> TRUE, val |-> v, ioerr |-> ""]
SelectError == [ok |-> FALSE, val |-> 0, ioerr |-> "IO error: not a terminal"]
InputError == [ok |-> FALSE, val |-> "", ioerr |-> "IO error: not a terminal"]

\* format!("{} - {}", p.name, p.description), the items of the provider prompt
provider_names(self) ==
    [i \in 1..Len(self.providers) |->
        self.providers[i].name \o " - " \o self.providers[i].description]

\* in.pick.val is the 0-based index Select returns; providers[selection].
select_provider(self, in) ==
    IF ~in.pick.ok THEN Did(IoErr(in.pick), <<>>, "")
    ELSE LET provider == self.providers[in.pick.val + 1]
         IN Then(set_dns(self, provider.primary_dns, provider.secondary_dns, in),
                 Did(Ok(""), <<>>,
                     Println(CheckMark \o " DNS set to " \o provider.name \o " ("
                             \o provider.primary_dns \o ", "
                             \o provider.secondary_dns \o ")")))

set_custom_dns(self, in) ==
    IF ~in.primary.ok THEN Did(IoErr(in.primary), <<>>, "")
    ELSE IF ~in.secondary.ok THEN Did(IoErr(in.secondary), <<>>, "")
    ELSE Then(set_dns(self, in.primary.val, in.secondary.val, in),
              Did(Ok(""), <<>>,
                  Println(CheckMark \o " DNS set to custom: " \o in.primary.val
                          \o ", " \o in.secondary.val)))

----------------------------------------------------------------------------
(* DnsChanger::show_current_dns *)

\* str::contains
Contains(line, pat) ==
    \E i \in 1..(Len(line) + 1) :
        i + Len(pat) - 1 <= Len(line) /\ SubSeq(line, i, i + Len(pat) - 1) = pat

\* What the filter prints for the lines ls: each matching line, in order.
RECURSIVE DnsLines(_)
DnsLines(ls) ==
    IF ls = <<>> THEN ""
    ELSE (IF Contains(Head(ls), "ipv4.dns") \/ Contains(Head(ls), "ipv4.ignore-auto-dns")
          THEN Println(Head(ls)) ELSE "") \o DnsLines(Tail(ls))

ShowQuery(conn, o) == Run("nmcli", <<"connection", "show", conn>>, o)
ResolverStatus(o) == Run("resolvectl", <<"status">>, o)

\* Faulty variant of show_current_dns: the connection is restarted after the query.
show_current_dns_restarting(self, in) ==
    LET r == restart_connection(self, in)
    IN Did(r.res, <<ShowQuery(self.current_connection, in.show)>> \o r.cmds, "")

\* A non-zero exit of the query is not an error: the filter is skipped and the
\* resolver status follows.  resolvectl is run with .status(), so it inherits
\* the terminal: the bytes it writes to stdout and stderr appear there as they
\* are, with no newline added or removed.  Its Result is dropped (let _ =).
show_current_dns(self, in) ==
    LET query == <<ShowQuery(self.current_connection, in.show)>>
        status == Println("\nSystem DNS configuration:") \o
                  (IF in.resolver.spawned THEN in.resolver.stdout ELSE "")
        complaints == IF in.resolver.spawned THEN in.resolver.stderr ELSE ""
    IN IF ~in.show.spawned THEN Did(IoErr(in.show), query, "")
       ELSE IF in.show.code # 0
       THEN [Did(Ok(""), query \o <<ResolverStatus(in.resolver)>>, status)
                EXCEPT !.err = complaints]
       ELSE IF ~in.show.utf8 THEN Did(Err(Utf8Error), query, "")
       ELSE [Did(Ok(""), query \o <<ResolverStatus(in.resolver)>>,
                 DnsLines(Lines(in.show.stdout)) \o status)
                EXCEPT !.err = complaints]

----------------------------------------------------------------------------
(* DnsChanger::show_menu *)

Banner(self) ==
    Println("========================================") \o
    Println("        Rust DNS Changer Tool") \o
    Println("========================================") \o
    Println("Current Connection: " \o self.current_connection) \o
    Println("")

options ==
    <<"Select DNS Provider", "Custom DNS", "Automatic DNS (Router)",
      "Show Current DNS", "Exit">>

\* println!("Goodbye!"); std::process::exit(1)
Goodbye == [res |-> Ok(""), cmds |-> <<>>, out |-> Println("Goodbye!"), err |-> "",
            exits |-> TRUE]

\* Faulty variant of Dispatch: Exit returns Ok(()) to the loop instead of ending the
\* process.
DispatchExitReturns(self, selection, in) ==
    IF selection = 0 THEN select_provider(self, in)
    ELSE IF selection = 1 THEN set_custom_dns(self, in)
    ELSE IF selection = 2 THEN set_automatic_dns(self, in)
    ELSE IF selection = 3 THEN show_current_dns(self, in)
    ELSE Did(Ok(""), <<>>, Println("Goodbye!"))

\* match selection { 0 => .., 1 => .., 2 => .., 3 => .., 4 => exit, _ => Ok(()) }
Dispatch(self, selection, in) ==
    IF selection = 0 THEN select_provider(self, in)
    ELSE IF selection = 1 THEN set_custom_dns(self, in)
    ELSE IF selection = 2 THEN set_automatic_dns(self, in)
    ELSE IF selection = 3 THEN show_current_dns(self, in)
    ELSE IF selection = 4 THEN Goodbye
    ELSE Did(Ok(""), <<>>, "")

\* The banner, the prompt (in.menu), then the dispatch.
show_menu(self, in) ==
    IF ~in.menu.ok
    THEN Did(IoErr(in.menu), <<>>, Banner(self))
    ELSE LET d == Dispatch(self, in.menu.val, in)
         IN [d EXCEPT !.out = Banner(self) \o d.out]

----------------------------------------------------------------------------
(* The environment: what the external programs and the terminal may answer *)

Succeeded(stdout) == Outcome(TRUE, 0, TRUE, stdout, "", "")
Failed(code, stderr) == Outcome(TRUE, code, TRUE, "", stderr, "")
BadUtf8(code) == Outcome(TRUE, code, FALSE, "", "", "")

\* sudo nmcli ...: not started, exit 0, or a non-zero exit with a diagnostic.
CommandOutcomes ==
    { SpawnError, Succeeded(""),
      Failed(10, "Error: unknown connection 'x'."),
      Failed(4, "Error: Connection activation failed.") }

\* The outcomes of modify, down and up one action consumes: down and up are
\* consumed only after a modify that exited zero.
ModifyRuns ==
    {[mod |-> m, down |-> SpawnError, up |-> SpawnError] :
        m \in CommandOutcomes \ {Succeeded("")}}
    \cup [mod : {Succeeded("")}, down : CommandOutcomes, up : CommandOutcomes]

ShowDumps ==
    { "connection.id: home\nipv4.method: auto\nipv4.dns: 1.1.1.1,1.0.0.1\nipv4.dns-search: --\nipv4.ignore-auto-dns: yes\nipv6.ignore-auto-dns: no\n",
      "connection.id: home\r\nipv4.dns: --\r\nipv4.ignore-auto-dns: no\r\n",
      "" }

\* nmcli connection show <connection>
ShowOutcomes ==
    {SpawnError, BadUtf8(0), Failed(10, "Error: home - no such connection profile.")}
    \cup {Succeeded(d) : d \in ShowDumps}

\* resolvectl status
ResolverOutcomes ==
    { SpawnError, Succeeded("Global\nCurrent DNS Server: 1.1.1.1\n"),
      Succeeded("Global\r\nDNS Servers: 192.168.1.1"),       Failed(1, "Failed to get global data: Unit dbus-org.freedesktop.resolve1.service not found.\n") }

\* The outcomes of the show query and of resolvectl one action consumes:
\* resolvectl runs unless the query returned through `?`.
ShowRuns ==
    {[show |-> q, resolver |-> SpawnError] : q \in {SpawnError, BadUtf8(0)}}
    \cup [show : ShowOutcomes \ {SpawnError, BadUtf8(0)}, resolver : ResolverOutcomes]

CustomAddresses == {"1.2.3.4", "not an address"}

\* The listing outputs a session starts from.
SessionListings ==
    { SpawnError, BadUtf8(0), Failed(8, "Error: NetworkManager is not running."),
      Outcome(TRUE, 1, TRUE, "conn1:eth0\n", "", ""),
      Succeeded(""), Succeeded("\n"), Succeeded("lo:\n"), Succeeded("eth0"),
      Succeeded("conn1:\r\nconn2:\r\n"),
      Succeeded("Wired connection 1:enp3s0\n"),
      Succeeded("lo\nvpn:\nhome wifi:wlan0\ndocker0:docker0\n"),
      Succeeded("conn1:eth0\nconn2:\nconn3:wlan0") }

Alphabet == {"a", "e", ":", "\n", "\r"}

\* All strings over Alphabet of at most n characters.
RECURSIVE Texts(_)
Texts(n) ==
    IF n = 0 THEN {""}
    ELSE LET shorter == Texts(n - 1)
         IN shorter \cup {t \o c : t \in shorter, c \in Alphabet}

\* The listing outputs discovery is checked on.
DiscoveryListings ==
    SessionListings
    \cup {BadUtf8(1)}
    \cup {Outcome(TRUE, c, TRUE, t, "", "") : c \in {0, 1}, t \in Texts(MaxLen)}

\* Inputs a show_menu call does not get to consume are left at these values.
Unused ==
    [menu |-> SelectError, pick |-> SelectError,
     primary |-> InputError, secondary |-> InputError,
     mod |-> SpawnError, down |-> SpawnError, up |-> SpawnError,
     show |-> SpawnError, resolver |-> SpawnError]

----------------------------------------------------------------------------
(* main *)

self == [providers |-> Providers, current_connection |-> current_connection]

StartIn(listings) ==
    /\ listing \in listings
    /\ pc = "start"
    /\ current_connection = ""
    /\ input = Unused
    /\ result = Ok("")
    /\ issued = <<>>
    /\ out = ""
    /\ err = ""
    /\ exit_code = <<>>

Init == StartIn(SessionListings)

InitDiscovery == StartIn(DiscoveryListings)

\* let dns_changer = DnsChanger::new()?;  an Err leaves main: the runtime
\* prints it and the process ends with status 1.
Startup ==
    /\ pc = "start"
    /\ LET r == new(listing)
       IN /\ result' = (IF r.ok THEN Ok("") ELSE Err(r.msg))
          /\ pc' = (IF r.ok THEN "menu" ELSE "aborted")
          /\ current_connection' = (IF r.ok THEN r.val.current_connection ELSE "")
          /\ err' = (IF r.ok THEN "" ELSE Println("Error: " \o r.msg))
          /\ exit_code' = (IF r.ok THEN <<>> ELSE <<1>>)
    /\ issued' = <<Run("nmcli", ListActive, listing)>>
    /\ out' = ""
    /\ UNCHANGED <<listing, input>>

\* Faulty variant of LoopBody: an Err of show_menu leaves main, as `?` would.
LoopBodyPropagating(in) ==
    /\ pc = "menu"
    /\ LET d == show_menu(self, in)
       IN /\ result' = d.res
          /\ issued' = d.cmds
          /\ pc' = (IF d.exits THEN "exited" ELSE IF d.res.ok THEN "menu" ELSE "aborted")
          /\ exit_code' = (IF d.exits \/ ~d.res.ok THEN <<1>> ELSE <<>>)
          /\ out' = (IF d.exits \/ ~d.res.ok THEN d.out ELSE d.out \o Println(""))
          /\ err' = d.err \o
                    (IF d.exits \/ d.res.ok THEN "" ELSE Println("Error: " \o d.res.msg))
    /\ input' = in
    /\ UNCHANGED <<listing, current_connection>>

\* One iteration of the loop: show_menu, eprintln! of its error, println!().
\* process::exit(1) inside show_menu ends the process before anything else.
LoopBody(in) ==
    /\ pc = "menu"
    /\ LET d == show_menu(self, in)
       IN /\ result' = d.res
          /\ issued' = d.cmds
          /\ pc' = (IF d.exits THEN "exited" ELSE "menu")
          /\ exit_code' = (IF d.exits THEN <<1>> ELSE <<>>)
          /\ out' = (IF d.exits THEN d.out ELSE d.out \o Println(""))
          /\ err' = d.err \o
                    (IF d.exits \/ d.res.ok THEN "" ELSE Println("Error: " \o d.res.msg))
    /\ input' = in
    /\ UNCHANGED <<listing, current_connection>>

\* The menu prompt itself fails.
MenuPromptFails ==
    /\ pc = "menu"
    /\ LoopBody(Unused)

\* 0: Select DNS Provider (the provider prompt fails, or entry i is picked)
ChooseProvider ==
    /\ pc = "menu"
    /\ \/ LoopBody([Unused EXCEPT !.menu = Answer(0)])
       \/ \E i \in 0..(Len(Providers) - 1), c \in ModifyRuns :
            LoopBody([Unused EXCEPT !.menu = Answer(0), !.pick = Answer(i),
                                    !.mod = c.mod, !.down = c.down, !.up = c.up])

\* 1: Custom DNS (the first prompt fails, the second fails, or both answer)
ChooseCustom ==
    /\ pc = "menu"
    /\ \/ LoopBody([Unused EXCEPT !.menu = Answer(1)])
       \/ \E p \in CustomAddresses :
            LoopBody([Unused EXCEPT !.menu = Answer(1), !.primary = Answer(p)])
       \/ \E p \in CustomAddresses, s \in CustomAddresses, c \in ModifyRuns :
            LoopBody([Unused EXCEPT !.menu = Answer(1),
                                    !.primary = Answer(p), !.secondary = Answer(s),
                                    !.mod = c.mod, !.down = c.down, !.up = c.up])

\* 2: Automatic DNS (Router)
ChooseAutomatic ==
    /\ pc = "menu"
    /\ \E c \in ModifyRuns :
        LoopBody([Unused EXCEPT !.menu = Answer(2),
                                !.mod = c.mod, !.down = c.down, !.up = c.up])

\* 3: Show Current DNS
ChooseShow ==
    /\ pc = "menu"
    /\ \E c \in ShowRuns :
        LoopBody([Unused EXCEPT !.menu = Answer(3),
                                !.show = c.show, !.resolver = c.resolver])

\* 4: Exit
ChooseExit ==
    /\ pc = "menu"
    /\ LoopBody([Unused EXCEPT !.menu = Answer(4)])

Next ==
    \/ Startup
    \/ MenuPromptFails
    \/ ChooseProvider
    \/ ChooseCustom
    \/ ChooseAutomatic
    \/ ChooseShow
    \/ ChooseExit

Spec == Init /\ [][Next]_vars

SpecDiscovery == InitDiscovery /\ [][Startup]_vars

----------------------------------------------------------------------------
(* Vocabulary of the properties *)

IsNmcli(c, verb) ==
    /\ c.prog = "sudo"
    /\ Len(c.argv) >= 3
    /\ c.argv[1] = "nmcli" /\ c.argv[2] = "connection" /\ c.argv[3] = verb

IsModify(c) == IsNmcli(c, "mod")
IsDown(c) == IsNmcli(c, "down")
IsUp(c) == IsNmcli(c, "up")

ExitedZero(o) == o.spawned /\ o.code = 0
ExitedNonZero(o) == o.spawned /\ o.code # 0

\* The DEVICE field of a listing line is there and not empty.
HasDevice(line) ==
    LET fields == Split(line, ":") IN Len(fields) >= 2 /\ fields[2] # ""

\* Line i is the first line of ls with a device.
FirstWithDevice(ls, i) ==
    /\ i \in 1..Len(ls)
    /\ HasDevice(ls[i])
    /\ \A j \in 1..(i - 1) : ~HasDevice(ls[j])

Reverse(q) == [i \in 1..Len(q) |-> q[Len(q) + 1 - i]]

\* The last show_menu call dispatched on menu item n.
Chose(n) == pc # "start" /\ input.menu = Answer(n)

\* What the last iteration wrote to stdout between the banner and the newline
\* of the loop's println!().
Messages == SubSeq(out, Len(Banner(self)) + 1, Len(out) - 1)

----------------------------------------------------------------------------
(* C1: when the listing command exits zero with valid text, discovery      *)
(* returns the NAME field of the first line whose DEVICE field is not      *)
(* empty; lines without a device are skipped, and replacing, reordering or *)
(* dropping the lines after that one does not change the result.           *)
C1_FirstLineWithDevice ==
    (pc # "start" /\ ExitedZero(listing) /\ listing.utf8) =>
        LET ls == Lines(listing.stdout)
        IN \A i \in 1..Len(ls) :
            FirstWithDevice(ls, i) =>
                LET name == Split(ls[i], ":")[1]
                    upto == SubSeq(ls, 1, i)
                    later == SubSeq(ls, i + 1, Len(ls))
                IN /\ pc = "menu"
                   /\ current_connection = name
                   /\ \A other \in {<<>>, Reverse(later), later \o <<"x:y">>,
                                    <<"x:y", ":", "z">> \o later} :
                        ScanLines(upto \o other, 1) = Ok(name)

\* Lines without a device are skipped before the match, and lines follow it.
C1_Witness ==
    /\ pc = "menu"
    /\ \E i \in 2..(Len(Lines(listing.stdout)) - 1) :
        /\ FirstWithDevice(Lines(listing.stdout), i)
        /\ current_connection = "home wifi"

----------------------------------------------------------------------------
(* C2: discovery fails when the listing command exits non-zero, prints     *)
(* nothing, or prints no line with a device; the process then ends before  *)
(* the loop: no menu is shown, no modify, down or up command is run, and   *)
(* nothing more happens.                                                   *)
DiscoveryMustFail(o) ==
    \/ ExitedNonZero(o)
    \/ ExitedZero(o) /\ o.utf8 /\ o.stdout = ""
    \/ ExitedZero(o) /\ o.utf8 /\ \A i \in 1..Len(Lines(o.stdout)) : ~HasDevice(Lines(o.stdout)[i])

C2_AbortedClean ==
    /\ (pc # "start" /\ DiscoveryMustFail(listing)) => pc = "aborted"
    /\ pc = "aborted" =>
        /\ ~result.ok
        /\ exit_code = <<1>>
        /\ out = ""
        /\ input = Unused
        /\ \A i \in 1..Len(issued) :
            ~(IsModify(issued[i]) \/ IsDown(issued[i]) \/ IsUp(issued[i]))

C2_DiscoveryFailureAborts == []C2_AbortedClean /\ [][pc # "aborted"]_vars

C2_Witness ==
    /\ pc = "aborted"
    /\ ExitedZero(listing) /\ listing.stdout = "conn1:\r\nconn2:\r\n"
    /\ result = Err("No active connection found")

----------------------------------------------------------------------------
(* C3: in the loop, an Err of show_menu is printed as "Error: <message>"   *)
(* and the loop goes on; the only step that leaves the loop is the Exit    *)
(* selection.                                                              *)
C3_ErrorPrinted ==
    (pc \in {"menu", "exited"} /\ ~result.ok) =>
        /\ pc = "menu"
        /\ err = Println("Error: " \o result.msg)
        /\ exit_code = <<>>

C3_LoopRecovers ==
    /\ []C3_ErrorPrinted
    /\ [][pc = "menu" => (pc' = "menu" \/ (pc' = "exited" /\ input'.menu = Answer(4)))]_vars

\* A failed "up" came back to the loop as an error and the loop is at the menu.
C3_Witness ==
    /\ pc = "menu"
    /\ ~result.ok
    /\ \E i \in 1..Len(issued) : IsUp(issued[i]) /\ ExitedNonZero(issued[i].outcome)
    /\ err = "Error: Failed to restart connection: Error: Connection activation failed.\n"

----------------------------------------------------------------------------
(* C4: the Exit selection ends the process with status 1 from within the   *)
(* dispatch: "Goodbye!" is the last line printed, no command is run, and   *)
(* no step follows.                                                        *)
C4_ExitedAtOnce ==
    /\ Chose(4) <=> pc = "exited"
    /\ pc = "exited" =>
        /\ exit_code = <<1>>
        /\ issued = <<>>
        /\ out = Banner(self) \o Println("Goodbye!")
        /\ err = ""

C4_ExitTerminates == []C4_ExitedAtOnce /\ [][pc # "exited"]_vars

C4_Witness == pc = "exited" /\ exit_code = <<1>> /\ current_connection = "conn1"

----------------------------------------------------------------------------
(* C5: in a restart, "up" is run right after "down" whatever "down" did;   *)
(* the restart (and so the action) fails exactly when "up" was not started *)
(* or exited non-zero, and a non-zero "up" gives the error                 *)
(* "Failed to restart connection: <stderr of up>".                         *)
C5_UpFollowsDown ==
    pc = "menu" =>
        \A i \in 1..Len(issued) :
            IsDown(issued[i]) =>
                /\ i < Len(issued)
                /\ IsUp(issued[i + 1])
                /\ issued[i + 1].argv[4] = issued[i].argv[4]
                /\ result.ok <=> ExitedZero(issued[i + 1].outcome)
                /\ ExitedNonZero(issued[i + 1].outcome) =>
                    result = Err("Failed to restart connection: "
                                 \o issued[i + 1].outcome.stderr)

\* "down" exited non-zero, "up" was run and succeeded, and so did the action.
C5_Witness ==
    /\ pc = "menu"
    /\ Len(issued) = 3
    /\ IsDown(issued[2]) /\ ExitedNonZero(issued[2].outcome)
    /\ IsUp(issued[3]) /\ ExitedZero(issued[3].outcome)
    /\ result.ok

----------------------------------------------------------------------------
(* C6: picking catalog entry k runs exactly one modify command, on the     *)
(* connection found at startup, with ipv4.dns "<primary> <secondary>" of   *)
(* that entry and ipv4.ignore-auto-dns "yes".                              *)
CatalogDns ==
    <<"1.1.1.1 1.0.0.1", "8.8.8.8 8.8.4.4",
      "9.9.9.9 149.112.112.112", "208.67.222.222 208.67.220.220">>

C6_ProviderModify ==
    (Chose(0) /\ input.pick.ok) =>
        /\ Len(CatalogDns) = Len(Providers)
        /\ Len(issued) >= 1
        /\ issued[1] = Run("sudo",
                           <<"nmcli", "connection", "mod",
                             get_active_connection(listing).val,
                             "ipv4.dns", CatalogDns[input.pick.val + 1],
                             "ipv4.ignore-auto-dns", "yes">>,
                           input.mod)
        /\ \A i \in 2..Len(issued) : ~IsModify(issued[i])

C6_Witness ==
    /\ Chose(0)
    /\ input.pick = Answer(3)
    /\ Len(issued) = 3
    /\ issued[1].argv[6] = "208.67.222.222 208.67.220.220"
    /\ issued[1].argv[4] = "Wired connection 1"
    /\ Messages = Println(CheckMark \o " DNS set to OpenDNS (208.67.222.222, 208.67.220.220)")

----------------------------------------------------------------------------
(* C7 as claimed: whenever the Automatic DNS action has run its modify     *)
(* command (ipv4.dns "", both ignore-auto-dns flags "no", on the           *)
(* connection found at startup), it then restarts the connection.          *)
AutomaticModify ==
    Run("sudo",
        <<"nmcli", "connection", "mod", get_active_connection(listing).val,
          "ipv4.dns", "", "ipv4.ignore-auto-dns", "no", "ipv6.ignore-auto-dns", "no">>,
        input.mod)

C7_AlwaysRestarts ==
    (Chose(2) /\ input.mod.spawned) =>
        /\ Len(issued) = 3
        /\ issued[1] = AutomaticModify
        /\ IsDown(issued[2]) /\ IsUp(issued[3])

(* C7 as amended: the Automatic DNS action always runs that modify         *)
(* command, and restarts the connection (down, then up) when the modify    *)
(* command exited zero.                                                    *)
C7_ModifyThenRestartIfOk ==
    Chose(2) =>
        /\ Len(issued) >= 1
        /\ issued[1] = AutomaticModify
        /\ ExitedZero(input.mod) =>
            /\ Len(issued) = 3
            /\ issued[2] = Down(current_connection, input.down)
            /\ issued[3] = Up(current_connection, input.up)

C7_Witness ==
    /\ Chose(2)
    /\ issued[1] = AutomaticModify
    /\ Len(issued) = 3
    /\ result.ok
    /\ Messages = Println(CheckMark \o " Switched to automatic DNS (Router)")

----------------------------------------------------------------------------
(* C8 as claimed: when an nmcli command of an action, other than "down",   *)
(* exits non-zero, the action returns an error that carries the command's  *)
(* stderr, the loop prints it and goes on; the show query included.        *)
IsNmcliCommand(c) ==
    \/ c.prog = "nmcli"
    \/ c.prog = "sudo" /\ Len(c.argv) >= 1 /\ c.argv[1] = "nmcli"

C8_NonZeroExitIsReported ==
    pc = "menu" =>
        \A i \in 1..Len(issued) :
            (/\ IsNmcliCommand(issued[i])
             /\ ~IsDown(issued[i])
             /\ ExitedNonZero(issued[i].outcome)) =>
                /\ ~result.ok
                /\ Contains(result.msg, issued[i].outcome.stderr)
                /\ err = Println("Error: " \o result.msg)

----------------------------------------------------------------------------
(* C9: Show Current DNS runs only the show query on the session's          *)
(* connection and resolvectl status, never modify, down or up, and leaves  *)
(* the session's connection name as it was.                                *)
C9_OnlyQueries ==
    Chose(3) =>
        /\ Len(issued) \in {1, 2}
        /\ issued[1].prog = "nmcli"
        /\ issued[1].argv = <<"connection", "show", current_connection>>
        /\ Len(issued) = 2 =>
            (issued[2].prog = "resolvectl" /\ issued[2].argv = <<"status">>)
        /\ \A i \in 1..Len(issued) :
            ~(IsModify(issued[i]) \/ IsDown(issued[i]) \/ IsUp(issued[i]))

C9_ShowMutatesNothing ==
    /\ []C9_OnlyQueries
    /\ [][input'.menu = Answer(3) => current_connection' = current_connection]_vars

\* The query succeeded, its DNS lines were printed, and resolvectl ran.
C9_Witness ==
    /\ Chose(3)
    /\ Len(issued) = 2
    /\ Messages = "ipv4.dns: 1.1.1.1,1.0.0.1\nipv4.dns-search: --\n"
                  \o "ipv4.ignore-auto-dns: yes\n\nSystem DNS configuration:\n"
                  \o "Global\r\nDNS Servers: 192.168.1.1"

----------------------------------------------------------------------------
(* C10: in the provider, custom and automatic actions, down and up are run *)
(* only after a modify command that exited zero; a failed modify means no  *)
(* down, no up, an error and no success message; a success message means   *)
(* modify and up both exited zero.                                         *)
C10_RestartOnlyAfterModify ==
    (Chose(0) \/ Chose(1) \/ Chose(2)) =>
        /\ \A i \in 1..Len(issued) :
            (IsDown(issued[i]) \/ IsUp(issued[i])) =>
                (i > 1 /\ IsModify(issued[1]) /\ ExitedZero(issued[1].outcome))
        /\ \A i \in 1..Len(issued) :
            (IsModify(issued[i]) /\ ~ExitedZero(issued[i].outcome)) =>
                /\ Len(issued) = 1
                /\ ~result.ok
                /\ Messages = ""
        /\ Messages # "" =>
            /\ result.ok
            /\ Len(issued) = 3
            /\ IsModify(issued[1]) /\ ExitedZero(issued[1].outcome)
            /\ IsUp(issued[3]) /\ ExitedZero(issued[3].outcome)
        /\ result.ok => Len(Lines(Messages)) = 1

\* The modify command of a custom entry exited non-zero: nothing else ran.
C10_Witness ==
    /\ Chose(1)
    /\ Len(issued) = 1
    /\ IsModify(issued[1]) /\ ExitedNonZero(issued[1].outcome)
    /\ result = Err("Command failed: Error: unknown connection 'x'.")
    /\ Messages = ""

====
